---- MODULE Spec2Model ----
(***************************************************************************)
(* Model of the SABDA scraper API (src/app.py): the per-client sliding     *)
(* window rate limiter, the signed-token service, the time-bounded content *)
(* cache and the GET /api/sabda request pipeline built from them.          *)
(*                                                                         *)
(* Time is the integer number of seconds read by datetime.now(); the clock *)
(* advances in steps of TickSecs.  The configured durations (cache TTL,    *)
(* token lifetime) and the per-minute quota are environment settings of    *)
(* the program; the model runs it with small settings so that expiry and   *)
(* quota exhaustion happen within MaxTime.                                 *)
(***************************************************************************)
EXTENDS Integers, Sequences, FiniteSets, TLC

\* ------------------------------------------------------------------ bounds
MaxTime == 80
TickSecs == 20
\* app.config['MAX_REQUESTS_PER_MINUTE'] (environment, default 60)
MAX_REQUESTS_PER_MINUTE == 2
\* app.config['CACHE_TTL'] in seconds (environment, default 3600)
CACHE_TTL == 40
\* app.config['JWT_EXPIRATION_DELTA'] in seconds (environment, default 24 h)
JWT_EXPIRATION_DELTA == 80

\* ------------------------------------------------------- program constants
\* the rate limiter's window: "(now - req_time).total_seconds() < 60"
WindowSecs == 60
\* "if year < 2000 or year > current_year + 1"
MinYear == 2000
\* datetime.now().year
CurrentYear == 2026

\* the extraction engine's thresholds (src/app.py:306-494)
MinTitleChars == 5
TitleLookahead == 3
MinParagraphChars == 50
MinLineChars == 15
ParaBreakChars == 200
MinParaChars == 100
SplitWords == 150
MinCleanChars == 50
RefWords == 2

\* documents of the extraction engine: characters of a word, and the most
\* elements of a document
WordChars == 7
MaxElements == 3

\* Optional values: None is the empty sequence, a value v is <<v>>.
None == <<>>
Some(v) == <<v>>


\* ------------------------------------------------------------ rate limiter
Clients == {"10.0.0.1", "10.0.0.2"}

\* request_counts.get(client_ip, []) : the recorded window of a client
WindowOf(counts, ip) == IF ip \in DOMAIN counts THEN counts[ip] ELSE <<>>

\* request_counts[client_ip] = value
SetWindow(counts, ip, w) ==
    [c \in (DOMAIN counts) \cup {ip} |-> IF c = ip THEN w ELSE counts[c]]

\* [req_time for req_time in request_counts[client_ip]
\*           if (now - req_time).total_seconds() < 60]
Prune(w, t) == SelectSeq(w, LAMBDA r : t - r < WindowSecs)

\* the number of instants of a history that are less than a window old
Recent(h, t) == Cardinality({i \in 1..Len(h) : t - h[i] < WindowSecs})

\* rate_limit_check with the quota test off by one ("> quota")
rate_limit_check_off_by_one(counts, ip, t) ==
    LET c0 == IF ip \in DOMAIN counts THEN counts ELSE SetWindow(counts, ip, <<>>)
        pruned == Prune(c0[ip], t)
    IN  IF Len(pruned) > MAX_REQUESTS_PER_MINUTE
        THEN [ok |-> FALSE, counts |-> SetWindow(c0, ip, pruned)]
        ELSE [ok |-> TRUE, counts |-> SetWindow(c0, ip, Append(pruned, t))]

\* rate_limit_check recording the instant before the quota test, so that
\* rejected calls are recorded too
rate_limit_check_records_rejected(counts, ip, t) ==
    LET c0 == IF ip \in DOMAIN counts THEN counts ELSE SetWindow(counts, ip, <<>>)
        pruned == Prune(c0[ip], t)
    IN  IF Len(pruned) >= MAX_REQUESTS_PER_MINUTE
        THEN [ok |-> FALSE, counts |-> SetWindow(c0, ip, Append(pruned, t))]
        ELSE [ok |-> TRUE, counts |-> SetWindow(c0, ip, Append(pruned, t))]

\* rate_limit_check without the pruning of old instants
rate_limit_check_without_pruning(counts, ip, t) ==
    LET c0 == IF ip \in DOMAIN counts THEN counts ELSE SetWindow(counts, ip, <<>>)
    IN  IF Len(c0[ip]) >= MAX_REQUESTS_PER_MINUTE
        THEN [ok |-> FALSE, counts |-> c0]
        ELSE [ok |-> TRUE, counts |-> SetWindow(c0, ip, Append(c0[ip], t))]

\* rate_limit_check(client_ip) at time t: the answer and the new request_counts
rate_limit_check(counts, ip, t) ==
    LET c0 == IF ip \in DOMAIN counts THEN counts ELSE SetWindow(counts, ip, <<>>)
        pruned == Prune(c0[ip], t)
    IN  IF Len(pruned) >= MAX_REQUESTS_PER_MINUTE
        THEN [ok |-> FALSE, counts |-> SetWindow(c0, ip, pruned)]
        ELSE [ok |-> TRUE, counts |-> SetWindow(c0, ip, Append(pruned, t))]

\* ----------------------------------------------------------- token service
\* app.config['SECRET_KEY']
SECRET_KEY == "server_secret"
\* API_KEYS.values()
API_KEYS == {"sabda_flutter_2025_secure_key", "sabda_mobile_2025_secure_key"}

\* hashlib.sha256(api_key.encode()).hexdigest(): one-way, collision free
Sha256(k) == <<"sha256", k>>

\* the HS256 MAC of a payload under a secret: equal MACs only for the same
\* secret and the same payload
HS256(secret, payload) == <<secret, payload>>

\* jwt.encode(payload, secret, algorithm='HS256')
jwt_encode(payload, secret) == [payload |-> payload, sig |-> HS256(secret, payload)]

\* jwt.decode(token, secret, algorithms=['HS256']) at time t: the payload, or
\* the exception raised
jwt_decode(tok, secret, t) ==
    IF tok.sig # HS256(secret, tok.payload)
    THEN [err |-> "InvalidTokenError", payload |-> None]
    ELSE IF tok.payload.exp <= t
    THEN [err |-> "ExpiredSignatureError", payload |-> None]
    ELSE [err |-> "", payload |-> Some(tok.payload)]

\* generate_token(api_key) at time t under @lru_cache(maxsize=128): memo is the
\* cache of earlier results, keyed by the argument
generate_token(memo, api_key, t) ==
    IF api_key \in DOMAIN memo
    THEN [token |-> memo[api_key], memo |-> memo]
    ELSE LET tok == jwt_encode([api_key |-> Sha256(api_key),
                                exp |-> t + JWT_EXPIRATION_DELTA,
                                iat |-> t], SECRET_KEY)
         IN  [token |-> tok,
              memo |-> [k \in (DOMAIN memo) \cup {api_key} |->
                           IF k = api_key THEN tok ELSE memo[k]]]

\* verify_token decoding without checking the signature
verify_token_unverified_signature(tok, t) ==
    IF tok.payload.exp <= t THEN None ELSE Some(tok.payload)

\* verify_token(token) at time t: the payload, or None
verify_token(tok, t) == jwt_decode(tok, SECRET_KEY, t).payload

\* A string that is no well-formed token
Garbage == [payload |-> [api_key |-> Sha256(""), exp |-> 0, iat |-> 0], sig |-> <<>>]

\* What a holder of token tok can make of it without the server's secret:
\* the signature altered, the expiry pushed back under the old signature,
\* and the payload re-signed with a secret of their own.
Forgeries(tok) ==
    LET late == [tok.payload EXCEPT !.exp = MaxTime + TickSecs]
    IN  { [tok EXCEPT !.sig = <<"flipped", tok.sig>>],
          [tok EXCEPT !.payload = late],
          jwt_encode(late, "attacker_secret") }

\* the tokens the server has issued
Issued(memo) == {memo[k] : k \in DOMAIN memo}

\* the credentials a client may present
Presentable(memo) ==
    Issued(memo) \cup UNION {Forgeries(tok) : tok \in Issued(memo)} \cup {Garbage}

\* ----------------------------------------------------------- content cache
\* get_cached_content still serving an entry whose age equals the TTL
get_cached_content_serves_at_ttl(cache, key, t) ==
    IF key \in DOMAIN cache
    THEN IF t - cache[key].timestamp <= CACHE_TTL
         THEN [content |-> Some(cache[key].content), cache |-> cache]
         ELSE [content |-> None,
               cache |-> [k \in (DOMAIN cache) \ {key} |-> cache[k]]]
    ELSE [content |-> None, cache |-> cache]

\* get_cached_content with the expiry test inverted
get_cached_content_inverted_expiry(cache, key, t) ==
    IF key \in DOMAIN cache
    THEN IF t - cache[key].timestamp >= CACHE_TTL
         THEN [content |-> Some(cache[key].content), cache |-> cache]
         ELSE [content |-> None,
               cache |-> [k \in (DOMAIN cache) \ {key} |-> cache[k]]]
    ELSE [content |-> None, cache |-> cache]

\* get_cached_content(cache_key) at time t: the content or None, and the new
\* content_cache (an expired entry is deleted)
get_cached_content(cache, key, t) ==
    IF key \in DOMAIN cache
    THEN IF t - cache[key].timestamp < CACHE_TTL
         THEN [content |-> Some(cache[key].content), cache |-> cache]
         ELSE [content |-> None,
               cache |-> [k \in (DOMAIN cache) \ {key} |-> cache[k]]]
    ELSE [content |-> None, cache |-> cache]

\* set_cached_content(cache_key, content) at time t
set_cached_content(cache, key, content, t) ==
    [k \in (DOMAIN cache) \cup {key} |->
        IF k = key THEN [content |-> content, timestamp |-> t] ELSE cache[k]]

\* --------------------------------------------------- request parameters
Digits == {"0", "1", "2", "3", "4", "5", "6", "7", "8", "9"}

DigitVal(ch) ==
    CASE ch = "0" -> 0 [] ch = "1" -> 1 [] ch = "2" -> 2 [] ch = "3" -> 3
      [] ch = "4" -> 4 [] ch = "5" -> 5 [] ch = "6" -> 6 [] ch = "7" -> 7
      [] ch = "8" -> 8 [] ch = "9" -> 9

\* re.match(r'^\d{4}$', date): four digits, then the end of the string; "$"
\* also matches just before one trailing newline
DatePatternMatches(d) ==
    /\ Len(d) \in {4, 5}
    /\ \A i \in 1..4 : d[i] \in Digits
    /\ Len(d) = 5 => d[5] = "\n"

\* int(s) of a string the pattern matched a part of: surrounding whitespace
\* is stripped; <<value>>, or None for ValueError
IntOf(s) ==
    LET core == SelectSeq(s, LAMBDA ch : ch # "\n")
    IN  IF Len(core) = 2 /\ \A i \in 1..2 : core[i] \in Digits
        THEN Some(10 * DigitVal(core[1]) + DigitVal(core[2]))
        ELSE None

\* date.zfill(4)
ZFill4(d) ==
    IF Len(d) >= 4 THEN d
    ELSE [i \in 1..4 |-> IF i <= 4 - Len(d) THEN "0" ELSE d[i - (4 - Len(d))]]

\* cache_key = f"sabda_{year}_{formatted_date}"
CacheKey(year, date) == <<year, ZFill4(date)>>

\* The validation of get_sabda_content.  A query is [year, date]: year is
\* request.args.get('year', type=int), None when absent or no integer; date
\* is request.args.get('date'), the empty string standing for None as well
\* (the code tests both with "not date").  The answer is the HTTP status of
\* the early return (with its error_type), or 0 when validation passes.
ValidationError == [status |-> 400, error_type |-> "ValidationError"]
Valid == [status |-> 0, error_type |-> ""]

validate(q) ==
    IF q.year = None \/ q.year = Some(0) \/ q.date = <<>>
    THEN ValidationError
    ELSE IF q.year[1] < MinYear \/ q.year[1] > CurrentYear + 1
    THEN ValidationError
    ELSE IF ~DatePatternMatches(q.date)
    THEN ValidationError
    ELSE LET month == IntOf(SubSeq(q.date, 1, 2))
             day == IntOf(SubSeq(q.date, 3, Len(q.date)))
         IN  IF month = None \/ day = None THEN ValidationError
             ELSE IF month[1] < 1 \/ month[1] > 12 \/ day[1] < 1 \/ day[1] > 31
             THEN ValidationError
             ELSE Valid

\* the queries a client sends: two valid ones at the edges of the accepted
\* ranges, and the ways a query can be wrong
GoodDate1 == <<"0", "1", "0", "1">>
GoodDate2 == <<"1", "2", "3", "1">>

ValidQueries ==
    { [year |-> Some(MinYear), date |-> GoodDate1],
      [year |-> Some(CurrentYear + 1), date |-> GoodDate2] }

BadYears == {None, Some(0), Some(MinYear - 1), Some(CurrentYear + 2)}

BadDates ==
    { <<>>,
      <<"9", "0", "2">>,
      <<"0", "9", "0", "2", "1">>,
      <<"0", "9", "a", "2">>,
      <<"1", "3", "0", "1">>,
      <<"0", "0", "0", "1">>,
      <<"0", "1", "3", "2">>,
      <<"0", "1", "0", "0">>,
      <<"0", "9", "0", "2", "\n">> }

Queries ==
    ValidQueries
      \cup {[year |-> y, date |-> GoodDate1] : y \in BadYears}
      \cup {[year |-> Some(CurrentYear), date |-> d] : d \in BadDates}

NoQuery == [year |-> None, date |-> <<>>]

\* the Authorization header of a request: absent, "Bearer <token>", or a
\* value that does not start with "Bearer " (then the whole value is taken
\* as the token)
NoHeader == [form |-> "missing", token |-> Garbage]

Headers(memo) ==
    {NoHeader}
      \cup {[form |-> "bearer", token |-> tok] : tok \in Presentable(memo)}
      \cup {[form |-> "raw", token |-> tok] : tok \in Issued(memo) \cup {Garbage}}

\* a header carrying a token the server issued, unaltered
GoodHeaders(memo) == {[form |-> "bearer", token |-> tok] : tok \in Issued(memo)}

\* The requests a client sends: every header with a valid query, and every
\* query with no header or with an issued token.
Requests(memo) ==
    {[header |-> h, query |-> q] : h \in Headers(memo), q \in ValidQueries}
      \cup {[header |-> h, query |-> q] :
               h \in GoodHeaders(memo) \cup {NoHeader}, q \in Queries}

\* The JSON body of POST /api/auth/token as request.get_json() returns it:
\* a value without an api_key that the test "not data or 'api_key' not in
\* data" catches (null, {}, an object with other members), an object with
\* an api_key, or the JSON array ["api_key"], which passes that test and
\* raises TypeError at data['api_key']
NoApiKey == [kind |-> "no_api_key", api_key |-> ""]
WithApiKey(k) == [kind |-> "api_key", api_key |-> k]
ArrayBody == [kind |-> "array", api_key |-> ""]

Bodies == {NoApiKey, ArrayBody, WithApiKey("invalid_key")}
              \cup {WithApiKey(k) : k \in API_KEYS}

\* The pipeline is explored for the requests of one client holding one of
\* the accepted keys; the limiter and the token service are explored for
\* all clients and all keys under SpecRate and SpecToken.
Caller == "10.0.0.1"
CallerBodies ==
    {NoApiKey, ArrayBody, WithApiKey("invalid_key"),
     WithApiKey("sabda_flutter_2025_secure_key")}

\* what a fetch of the upstream site ends in
FetchOutcomes == {"ok", "Timeout", "RequestException", "TooShort", "ExtractError"}

\* the exception clause of scrape_sabda_content an outcome ends in
ErrorTypeOf(outcome) ==
    CASE outcome = "Timeout" -> "TimeoutException"
      [] outcome = "RequestException" -> "RequestException"
      [] OTHER -> "GeneralException"

\* ---- the extraction engine: SABDAScraper.extract_content ----
\*
\* A document is the title tag and the elements of the main content area in
\* document order. Every element carries one text node, so it gives one line
\* of the text; an element without words gives none. A text is the sequence
\* of its words, a word <<i, k>> being the k-th word of element i, and every
\* word is WordChars characters long, words being separated by one space.

\* number of characters of a text of w words
Chars(w) == IF w = 0 THEN 0 ELSE w * (WordChars + 1) - 1

\* the kinds of text an element holds: ordinary prose, prose that starts with
\* "Ketika", the scripture reference ("Mazmur 23:1"), the donation footer
\* ("Mari memberkati ... Pancar Pijar Alkitab"), a copyright notice, and a
\* navigation line ("Publikasi")
Kinds == {"body", "ketika", "ref", "footer", "copyright", "nav"}

\* an element: p is whether it is a <p> tag, center its align attribute, w
\* its number of words, stop whether its text ends with a full stop, tag
\* whether its last word is an author tag like [KRS]
Element(p, center, kind, w, stop, tag) ==
    [p |-> p, center |-> center, kind |-> kind, w |-> w, stop |-> stop, tag |-> tag]

Elements ==
    { Element(TRUE, FALSE, "body", 13, TRUE, FALSE),
      Element(TRUE, FALSE, "body", 7, TRUE, FALSE),
      Element(TRUE, FALSE, "body", 8, TRUE, TRUE),
      Element(TRUE, FALSE, "body", 2, FALSE, FALSE),
      Element(TRUE, FALSE, "body", 0, FALSE, FALSE),
      Element(TRUE, TRUE, "body", 13, TRUE, FALSE),
      Element(TRUE, FALSE, "footer", 7, TRUE, FALSE),
      Element(TRUE, FALSE, "copyright", 7, TRUE, FALSE),
      Element(FALSE, FALSE, "ref", 2, FALSE, FALSE),
      Element(FALSE, FALSE, "ketika", 80, FALSE, FALSE),
      Element(FALSE, FALSE, "body", 26, TRUE, FALSE),
      Element(FALSE, FALSE, "nav", 3, FALSE, FALSE) }

Docs ==
    [title : {None, Some("Santapan Harian")},
     elements : UNION {[1..n -> Elements] : n \in 0..MaxElements}]

\* the text of element i
LineText(doc, i) == [k \in 1..doc.elements[i].w |-> <<i, k>>]

\* texts joined by single spaces; also what str.split gives for the joined
\* text, a text being its word sequence
RECURSIVE Join(_)
Join(texts) == IF texts = <<>> THEN <<>> ELSE Head(texts) \o Join(Tail(texts))

\* lines: the stripped, non-empty lines of the main content's text
Lines(doc) ==
    SelectSeq([i \in 1..Len(doc.elements) |-> i], LAMBDA i : doc.elements[i].w > 0)

\* clean_text, as the sequence of its lines
clean_text(doc) == [n \in 1..Len(Lines(doc)) |-> LineText(doc, Lines(doc)[n])]

\* scripture_pattern.search(clean_text): the position in lines of the first
\* line that holds a reference, 0 for no match
scripture_match(doc) ==
    LET ls == Lines(doc)
        hits == {n \in 1..Len(ls) : doc.elements[ls[n]].kind = "ref"}
    IN  IF hits = {} THEN 0 ELSE CHOOSE n \in hits : \A m \in hits : n <= m

\* the reference is the first RefWords words of its line
scripture_reference(doc) ==
    IF scripture_match(doc) = 0 THEN None
    ELSE SubSeq(LineText(doc, Lines(doc)[scripture_match(doc)]), 1, RefWords)

\* the title candidate a line after the match gives: the line without its
\* bracketed tag; from is the first word of the line that counts
TitleOf(doc, i, from) ==
    LET e == doc.elements[i]
    IN  SubSeq(LineText(doc, i), from, IF e.tag THEN e.w - 1 ELSE e.w)

\* devotional_title: of the rest of the reference's line and the lines after
\* it, TitleLookahead lines in all, the first one longer than MinTitleChars
\* that does not start with "ketika"
devotional_title(doc) ==
    LET ls == Lines(doc)
        s == scripture_match(doc)
        Rest(n) == IF n = s THEN RefWords + 1 ELSE 1
        Length(n) == doc.elements[ls[n]].w - Rest(n) + 1
        Ketika(n) == n # s /\ doc.elements[ls[n]].kind = "ketika"
        cands == {n \in s..(s + TitleLookahead - 1) :
                     /\ n <= Len(ls)
                     /\ Chars(Length(n)) > MinTitleChars
                     /\ ~Ketika(n)}
    IN  IF s = 0 \/ cands = {} THEN None
        ELSE LET n == CHOOSE c \in cands : \A d \in cands : c <= d
             IN  TitleOf(doc, ls[n], Rest(n))

\* the structural pass keeps a <p> tag that has text, is not centred, holds
\* no donation or footer pattern and is not shorter than MinParagraphChars
Usable(e) ==
    /\ e.p
    /\ e.w > 0
    /\ ~e.center
    /\ e.kind \notin {"footer", "copyright"}
    /\ ~(Chars(e.w) < MinParagraphChars)

structural_pass(doc) ==
    LET kept == SelectSeq([i \in 1..Len(doc.elements) |-> i],
                          LAMBDA i : Usable(doc.elements[i]))
    IN  [n \in 1..Len(kept) |-> LineText(doc, kept[n])]

\* mutant of text_lines: a donation footer is passed over and the loop goes on
RECURSIVE text_lines_passes_over_footer(_, _, _)
text_lines_passes_over_footer(doc, ls, found_content_start) ==
    IF ls = <<>> THEN <<>>
    ELSE LET e == doc.elements[Head(ls)]
         IN  IF ~found_content_start
             THEN text_lines_passes_over_footer(doc, Tail(ls),
                             scripture_match(doc) # 0 /\ e.kind = "ref")
             ELSE IF e.kind \in {"footer", "nav"}
                  THEN text_lines_passes_over_footer(doc, Tail(ls), TRUE)
             ELSE IF Chars(e.w) > MinLineChars
                  THEN <<Head(ls)>> \o text_lines_passes_over_footer(doc, Tail(ls), TRUE)
                  ELSE text_lines_passes_over_footer(doc, Tail(ls), TRUE)

\* the text-fallback pass over lines: nothing is kept up to and including
\* the first line that holds the reference, the loop ends at the first
\* donation footer after it, navigation lines are passed over, and of the
\* others the lines longer than MinLineChars are kept
RECURSIVE text_lines(_, _, _)
text_lines(doc, ls, found_content_start) ==
    IF ls = <<>> THEN <<>>
    ELSE LET e == doc.elements[Head(ls)]
         IN  IF ~found_content_start
             THEN text_lines(doc, Tail(ls),
                             scripture_match(doc) # 0 /\ e.kind = "ref")
             ELSE IF e.kind = "footer" THEN <<>>
             ELSE IF e.kind = "nav" THEN text_lines(doc, Tail(ls), TRUE)
             ELSE IF Chars(e.w) > MinLineChars
                  THEN <<Head(ls)>> \o text_lines(doc, Tail(ls), TRUE)
                  ELSE text_lines(doc, Tail(ls), TRUE)

\* content_text: the kept lines joined by spaces
content_text(doc) ==
    LET kept == text_lines(doc, Lines(doc), FALSE)
    IN  Join([n \in 1..Len(kept) |-> LineText(doc, kept[n])])

\* re.split at the space after a full stop: every line starts with a capital
\* letter, so the sentences end where a kept line ends with a full stop
RECURSIVE sentences(_, _, _)
sentences(doc, kept, current) ==
    IF kept = <<>> THEN <<>>
    ELSE LET e == doc.elements[Head(kept)]
             text == current \o LineText(doc, Head(kept))
         IN  IF e.stop \/ Tail(kept) = <<>>
             THEN <<[text |-> text, stop |-> e.stop]>> \o sentences(doc, Tail(kept), <<>>)
             ELSE sentences(doc, Tail(kept), text)

\* Method 1: a paragraph is closed after a sentence that ends with a full
\* stop once the paragraph is longer than ParaBreakChars, and the rest is a
\* paragraph when longer than MinParaChars
RECURSIVE sentence_paragraphs(_, _, _)
sentence_paragraphs(ss, current_para, potential_paragraphs) ==
    IF ss = <<>>
    THEN IF current_para # <<>> /\ Chars(Len(Join(current_para))) > MinParaChars
         THEN Append(potential_paragraphs, Join(current_para))
         ELSE potential_paragraphs
    ELSE LET para == Append(current_para, Head(ss).text)
             para_text == Join(para)
         IN  IF /\ Chars(Len(para_text)) > ParaBreakChars
                /\ Head(ss).stop
                /\ Chars(Len(para_text)) > MinParaChars
             THEN sentence_paragraphs(Tail(ss), <<>>, Append(potential_paragraphs, para_text))
             ELSE sentence_paragraphs(Tail(ss), para, potential_paragraphs)

\* mutant of equal_split: three parts of a third of the words each, the
\* remainder of the division left out
equal_split_drops_remainder(words) ==
    LET third == Len(words) \div 3
    IN  << SubSeq(words, 1, third),
           SubSeq(words, third + 1, 2 * third),
           SubSeq(words, 2 * third + 1, 3 * third) >>

\* the three parts the equal split makes of the words
equal_split(words) ==
    LET third == Len(words) \div 3
    IN  << SubSeq(words, 1, third),
           SubSeq(words, third + 1, 2 * third),
           SubSeq(words, 2 * third + 1, Len(words)) >>

\* Method 1 over the kept lines of the document
potential_paragraphs(doc) ==
    sentence_paragraphs(sentences(doc, text_lines(doc, Lines(doc), FALSE), <<>>),
                        <<>>, <<>>)

\* what the passes leave: the passes that ran, what the structural pass and
\* Method 1 gave, and the paragraphs before post-cleaning
Segmented(stages, structural, potential, paragraphs) ==
    [stages |-> stages, structural |-> structural, potential |-> potential,
     paragraphs |-> paragraphs]

\* mutant of select_paragraphs: the text-fallback pass also replaces two
\* structural paragraphs
select_paragraphs_falls_back_on_two(structural, potential, words) ==
    IF Len(structural) <= 2
    THEN Segmented(<<"structural", "text_fallback">>, structural, potential, potential)
    ELSE Segmented(<<"structural">>, structural, <<>>, structural)

\* mutant of select_paragraphs: the structural paragraph is kept when the
\* text-fallback pass finds no body
select_paragraphs_keeps_structural(structural, potential, words) ==
    IF Len(structural) <= 1
    THEN IF Len(potential) <= 1 /\ words # <<>>
         THEN IF Len(words) > SplitWords
              THEN Segmented(<<"structural", "text_fallback", "equal_split">>,
                             structural, potential, equal_split(words))
              ELSE Segmented(<<"structural", "text_fallback", "whole_body">>,
                             structural, potential, <<words>>)
         ELSE Segmented(<<"structural", "text_fallback">>, structural, potential,
                        IF potential = <<>> THEN structural ELSE potential)
    ELSE Segmented(<<"structural">>, structural, <<>>, structural)

\* the choice between the passes: the text-fallback pass replaces at most
\* one structural paragraph, and the body is split, or taken whole, when
\* Method 1 gave at most one paragraph of a body that has words
select_paragraphs(structural, potential, words) ==
    IF Len(structural) <= 1
    THEN IF Len(potential) <= 1 /\ words # <<>>
         THEN IF Len(words) > SplitWords
              THEN Segmented(<<"structural", "text_fallback", "equal_split">>,
                             structural, potential, equal_split(words))
              ELSE Segmented(<<"structural", "text_fallback", "whole_body">>,
                             structural, potential, <<words>>)
         ELSE Segmented(<<"structural", "text_fallback">>,
                        structural, potential, potential)
    ELSE Segmented(<<"structural">>, structural, <<>>, structural)

\* the paragraphs of a document before post-cleaning
segment(doc) ==
    select_paragraphs(structural_pass(doc), potential_paragraphs(doc), content_text(doc))

\* t is the beginning of text
StartsWith(text, t) == Len(t) <= Len(text) /\ SubSeq(text, 1, Len(t)) = t

\* the author tag is the last word of a tagged element
IsTag(doc, word) ==
    doc.elements[word[1]].tag /\ word[2] = doc.elements[word[1]].w

\* the devotional title is taken from the beginning of a paragraph
strip_title(para, title) ==
    IF title # None /\ StartsWith(para, title)
    THEN SubSeq(para, Len(title) + 1, Len(para))
    ELSE para

\* an author tag is taken from the end of a paragraph
strip_tag(doc, para) ==
    IF para # <<>> /\ IsTag(doc, para[Len(para)])
    THEN SubSeq(para, 1, Len(para) - 1)
    ELSE para

\* post-cleaning of one paragraph
clean_paragraph(doc, para) == strip_tag(doc, strip_title(para, devotional_title(doc)))

\* cleaned_paragraphs: the cleaned paragraphs longer than MinCleanChars
cleaned_paragraphs(doc, paragraphs) ==
    SelectSeq([n \in 1..Len(paragraphs) |-> clean_paragraph(doc, paragraphs[n])],
              LAMBDA para : Chars(Len(para)) > MinCleanChars)

\* mutant of content_record: the words of the returned paragraphs are counted
content_record_counts_paragraph_words(doc, cleaned) ==
    [title |-> IF doc.title = None THEN "SABDA Devotional" ELSE doc.title[1],
     scripture_reference |-> scripture_reference(doc),
     devotional_title |-> devotional_title(doc),
     devotional_content |-> cleaned,
     full_text |-> clean_text(doc),
     word_count |-> Len(Join(cleaned)),
     paragraph_count |-> Len(cleaned)]

\* the dict extract_content fills: its seven keys are always set, so it is
\* never falsy
content_record(doc, cleaned) ==
    [title |-> IF doc.title = None THEN "SABDA Devotional" ELSE doc.title[1],
     scripture_reference |-> scripture_reference(doc),
     devotional_title |-> devotional_title(doc),
     devotional_content |-> cleaned,
     full_text |-> clean_text(doc),
     word_count |-> Len(Join(clean_text(doc))),
     paragraph_count |-> Len(cleaned)]

\* the record extract_content returns for a document
extract_content(doc) ==
    content_record(doc, cleaned_paragraphs(doc, segment(doc).paragraphs))

\* the pages the upstream site answers with in the request pipeline
Pages ==
    { [title |-> Some("Santapan Harian"),
       elements |-> << Element(FALSE, FALSE, "ref", 2, FALSE, FALSE),
                       Element(TRUE, FALSE, "body", 2, FALSE, FALSE),
                       Element(TRUE, FALSE, "body", 13, TRUE, FALSE),
                       Element(TRUE, FALSE, "body", 8, TRUE, TRUE) >>],
      [title |-> None,
       elements |-> << Element(TRUE, FALSE, "body", 2, FALSE, FALSE) >>] }

VARIABLES
    now,             \* the clock read by datetime.now() / datetime.utcnow()
    request_counts,  \* client ip -> list of recorded request instants
    rl,              \* history: the last allow call, its input and answer
    admitted,        \* history: per client, the last quota+1 admitted instants
    rejected,        \* history: the clients whose latest call was rejected
    token_cache,     \* the lru_cache of generate_token: api key -> token
    tk,              \* history: the last issue or verify call
    content_cache,   \* cache key -> [content, timestamp]
    stored,          \* history: (year, date) -> what was last fetched, and when
    req,             \* the HTTP request in progress or just answered
    threads,         \* worker thread -> its position in the function it runs
    ex,              \* the document being extracted, and what came of it
    burned           \* history: per client, the instants, less than 60 s
                     \* before its latest GET /api/sabda, of its last admitted
                     \* GET /api/sabda requests that were answered 401 or 400

historyVars == <<rl, admitted, rejected>>
limiterVars == <<request_counts, historyVars>>
tokenVars == <<token_cache, tk>>
cacheVars == <<content_cache, stored>>
vars == <<now, request_counts, rl, admitted, rejected, token_cache, tk,
          content_cache, stored, req, threads, ex, burned>>

\* The worker threads of app.run(threaded=True).  A thread that runs no
\* function: every local it can have, unset
Threads == {"worker_1", "worker_2"}

IdleThread ==
    [pc |-> "idle", t |-> 0, old |-> <<>>, key |-> <<>>, result |-> ""]

\* No document in extraction
NoExtraction ==
    [pc |-> "idle", doc |-> [title |-> None, elements |-> <<>>],
     content |-> None, stages |-> <<>>, structural |-> 0, potential |-> 0,
     paragraphs |-> <<>>]

\* No request: every field a request can have, unset
NoReq ==
    [pc |-> "idle", endpoint |-> "none", client |-> "none", header |-> NoHeader,
     query |-> NoQuery, body |-> NoApiKey, stages |-> <<>>, overQuota |-> FALSE,
     status |-> 0, envelope |-> "", error_type |-> "", cached |-> FALSE, data |-> None,
     token |-> None, at |-> 0, known |-> None, fetched |-> ""]

NoTokenCall == [op |-> "none", key |-> "", token |-> Garbage, at |-> 0, result |-> None]

NoCall == [client |-> "none", at |-> 0, pre |-> <<>>, ok |-> TRUE, wasRejected |-> FALSE]

\* the last MAX_REQUESTS_PER_MINUTE + 1 entries of a history
LastAdmitted(h) ==
    IF Len(h) <= MAX_REQUESTS_PER_MINUTE + 1 THEN h
    ELSE SubSeq(h, Len(h) - MAX_REQUESTS_PER_MINUTE, Len(h))

\* the last MAX_REQUESTS_PER_MINUTE entries of a history
LastBurned(h) ==
    IF Len(h) <= MAX_REQUESTS_PER_MINUTE THEN h
    ELSE SubSeq(h, Len(h) - MAX_REQUESTS_PER_MINUTE + 1, Len(h))

Init ==
    /\ now = 0
    /\ request_counts = << >>
    /\ rl = NoCall
    /\ admitted = [c \in Clients |-> <<>>]
    /\ rejected = {}
    /\ token_cache = << >>
    /\ tk = NoTokenCall
    /\ content_cache = << >>
    /\ stored = << >>
    /\ req = NoReq
    /\ threads = [th \in Threads |-> IdleThread]
    /\ ex = NoExtraction
    /\ burned = [c \in Clients |-> <<>>]

\* time passes
Tick ==
    /\ req.pc # "done"
    /\ now + TickSecs <= MaxTime
    /\ now' = now + TickSecs
    /\ UNCHANGED <<ex, burned, limiterVars, tokenVars, cacheVars, req, threads>>

\* allow(clientId): rate_limit_check(c) is called; the call and its answer
\* are recorded in the limiter's history
Allow(c) ==
    LET r == rate_limit_check(request_counts, c, now)
    IN  /\ request_counts' = r.counts
        /\ rl' = [client |-> c, at |-> now, pre |-> WindowOf(request_counts, c),
                  ok |-> r.ok, wasRejected |-> c \in rejected]
        /\ admitted' = IF r.ok
                       THEN [admitted EXCEPT ![c] = LastAdmitted(Append(@, now))]
                       ELSE admitted
        /\ rejected' = IF r.ok THEN rejected \ {c} ELSE rejected \cup {c}
        /\ UNCHANGED <<ex, burned, now, tokenVars, cacheVars, req, threads>>

NextRate == Tick \/ \E c \in Clients : Allow(c)

SpecRate == Init /\ [][NextRate]_vars

\* issue(apiKey): generate_token is called for an accepted key
Issue(k) ==
    LET g == generate_token(token_cache, k, now)
    IN  /\ token_cache' = g.memo
        /\ tk' = [op |-> "issue", key |-> k, token |-> g.token, at |-> now,
                  result |-> None]
        /\ UNCHANGED <<ex, burned, now, limiterVars, cacheVars, req, threads>>

\* verify(credential): verify_token is called on a presented credential
Verify(tok) ==
    /\ tk' = [op |-> "verify", key |-> "", token |-> tok, at |-> now,
              result |-> verify_token(tok, now)]
    /\ UNCHANGED <<ex, burned, now, limiterVars, token_cache, cacheVars, req, threads>>

NextToken ==
    \/ Tick
    \/ \E k \in API_KEYS : Issue(k)
    \/ \E tok \in Presentable(token_cache) : Verify(tok)

SpecToken == Init /\ [][NextToken]_vars

\* ------------------------------------------------- GET /api/sabda pipeline
\* the token require_auth takes from a present Authorization header:
\* auth_header.split(' ')[1] if auth_header.startswith('Bearer ') else
\* auth_header (the split of a value starting with "Bearer " always has a
\* second part, so the IndexError branch is never taken)
TokenOf(header) == header.token

\* the outcome of the require_auth decorator before the handler is called
Gate(status, error_type, stages, counts) ==
    [status |-> status, error_type |-> error_type, stages |-> stages,
     counts |-> counts]

\* require_auth checking the credential before the rate limit
require_auth_verifies_first(counts, ip, header, t) ==
    IF header.form = "missing"
    THEN Gate(401, "AuthenticationError", <<>>, counts)
    ELSE IF verify_token(TokenOf(header), t) = None
    THEN Gate(401, "AuthenticationError", <<"verify_token">>, counts)
    ELSE LET lim == rate_limit_check(counts, ip, t)
         IN  IF ~lim.ok
             THEN Gate(429, "RateLimitError", <<"verify_token", "rate_limit">>,
                       lim.counts)
             ELSE Gate(0, "", <<"verify_token", "rate_limit">>, lim.counts)

\* require_auth calling the handler whatever verify_token returned
require_auth_ignores_payload(counts, ip, header, t) ==
    LET lim == rate_limit_check(counts, ip, t)
    IN  IF ~lim.ok
        THEN Gate(429, "RateLimitError", <<"rate_limit">>, lim.counts)
        ELSE IF header.form = "missing"
        THEN Gate(401, "AuthenticationError", <<"rate_limit">>, lim.counts)
        ELSE Gate(0, "", <<"rate_limit", "verify_token">>, lim.counts)

\* require_auth leaving a request it answers 401 out of the client's window
require_auth_forgets_rejected(counts, ip, header, t) ==
    LET lim == rate_limit_check(counts, ip, t)
    IN  IF ~lim.ok
        THEN Gate(429, "RateLimitError", <<"rate_limit">>, lim.counts)
        ELSE IF header.form = "missing"
        THEN Gate(401, "AuthenticationError", <<"rate_limit">>, counts)
        ELSE IF verify_token(TokenOf(header), t) = None
        THEN Gate(401, "AuthenticationError", <<"rate_limit", "verify_token">>,
                  counts)
        ELSE Gate(0, "", <<"rate_limit", "verify_token">>, lim.counts)

\* require_auth for a request of client ip with Authorization header at time
\* t: status 429 or 401 of the early return, or 0 when the handler is called;
\* the stages run, and the new request_counts
require_auth(counts, ip, header, t) ==
    LET lim == rate_limit_check(counts, ip, t)
    IN  IF ~lim.ok
        THEN Gate(429, "RateLimitError", <<"rate_limit">>, lim.counts)
        ELSE IF header.form = "missing"
        THEN Gate(401, "AuthenticationError", <<"rate_limit">>, lim.counts)
        ELSE IF verify_token(TokenOf(header), t) = None
        THEN Gate(401, "AuthenticationError", <<"rate_limit", "verify_token">>,
                  lim.counts)
        ELSE Gate(0, "", <<"rate_limit", "verify_token">>, lim.counts)

\* get_sabda_content answering every result of the scraper with 200
status_code_always_200(result_status) == 200

\* status_code = 200 if result['status'] == 'success' else 500
status_code(result_status) == IF result_status = "success" THEN 200 ELSE 500

\* the outcome of the handler up to the fetch
Handled(pc, status, envelope, error_type, stages, cache, data) ==
    [pc |-> pc, status |-> status, envelope |-> envelope,
     error_type |-> error_type, stages |-> stages,
     cache |-> cache, cached |-> data # None, data |-> data]

\* get_sabda_content for query q at time t, up to the fetch: validation, then
\* scrape_sabda_content's cache lookup ("if cached_result:" holds for every
\* cached record).  Ends in the answer 400, in the answer 200 from the
\* cache, or at the fetch.
get_sabda_content(cache, q, t) ==
    LET v == validate(q)
    IN  IF v.status # 0
        THEN Handled("done", v.status, "error", v.error_type, <<"handler">>,
                     cache, None)
        ELSE LET got == get_cached_content(cache, CacheKey(q.year[1], q.date), t)
             IN  IF got.content # None
                 THEN Handled("done", status_code("success"), "success", "",
                              <<"handler", "cache_lookup">>,
                              got.cache, got.content)
                 ELSE Handled("fetch", 0, "", "", <<"handler", "cache_lookup">>,
                              got.cache, None)

\* the rest of scrape_sabda_content caching whatever the fetch ended in
scrape_fetch_caches_failures(cache, key, outcome, page, t) ==
    LET content_data == extract_content(page)
    IN  IF outcome = "ok"
        THEN [envelope |-> "success", error_type |-> "",
              data |-> Some(content_data),
              cache |-> set_cached_content(cache, key, content_data, t)]
        ELSE [envelope |-> "error", error_type |-> ErrorTypeOf(outcome), data |-> None,
              cache |-> set_cached_content(cache, key, NoExtraction.content, t)]

\* the rest of scrape_sabda_content after a cache miss, at time t: the fetch
\* ends in outcome; a fetched page is extracted and cached and returned with
\* status "success", a failure is returned with status "error" and its
\* error type, and nothing is cached
scrape_fetch(cache, key, outcome, page, t) ==
    LET content_data == extract_content(page)
    IN  IF outcome = "ok"
        THEN [envelope |-> "success", error_type |-> "",
              data |-> Some(content_data),
              cache |-> set_cached_content(cache, key, content_data, t)]
        ELSE [envelope |-> "error", error_type |-> ErrorTypeOf(outcome), data |-> None,
              cache |-> cache]

\* history: what was last fetched for the query's (year, date), if anything
Known(q) == IF <<q.year, q.date>> \in DOMAIN stored
            THEN Some(stored[<<q.year, q.date>>]) ELSE None

\* GET /api/sabda: the request of client c with Authorization header h and
\* query q is taken through require_auth and get_sabda_content, up to the
\* answer or to the fetch
SabdaRequest(c, h, q) ==
    /\ req.pc = "idle"
    /\ LET gate == require_auth(request_counts, c, h, now)
           hnd == get_sabda_content(content_cache, q, now)
           r == [NoReq EXCEPT
                   !.endpoint = "sabda", !.client = c, !.header = h, !.query = q,
                   !.at = now, !.known = Known(q),
                   !.overQuota = Recent(WindowOf(request_counts, c), now)
                                     >= MAX_REQUESTS_PER_MINUTE]
       IN  /\ request_counts' = gate.counts
           /\ IF gate.status # 0
              THEN /\ req' = [r EXCEPT !.pc = "done", !.status = gate.status,
                                       !.envelope = "error",
                                       !.error_type = gate.error_type,
                                       !.stages = gate.stages]
                   /\ UNCHANGED content_cache
              ELSE /\ req' = [r EXCEPT !.pc = hnd.pc, !.status = hnd.status,
                                       !.envelope = hnd.envelope,
                                       !.error_type = hnd.error_type,
                                       !.stages = gate.stages \o hnd.stages,
                                       !.cached = hnd.cached, !.data = hnd.data]
                   /\ content_cache' = hnd.cache
           /\ burned' = IF \/ gate.status = 401
                           \/ gate.status = 0 /\ hnd.status = 400
                        THEN [burned EXCEPT ![c] = LastBurned(Append(Prune(@, now), now))]
                        ELSE [burned EXCEPT ![c] = Prune(@, now)]
    /\ UNCHANGED <<ex, now, historyVars, tokenVars, stored, threads>>

\* the fetch of the request in progress ends: scrape_sabda_content returns
\* and get_sabda_content answers
ScrapeFetch(outcome, page) ==
    /\ req.pc = "fetch"
    /\ LET q == req.query
           r == scrape_fetch(content_cache, CacheKey(q.year[1], q.date),
                             outcome, page, now)
       IN  /\ content_cache' = r.cache
           /\ stored' = IF outcome = "ok"
                        THEN [k \in (DOMAIN stored) \cup {<<q.year, q.date>>} |->
                                 IF k = <<q.year, q.date>>
                                 THEN [at |-> now, content |-> extract_content(page)]
                                 ELSE stored[k]]
                        ELSE stored
           /\ req' = [req EXCEPT !.pc = "done",
                                 !.status = status_code(r.envelope),
                                 !.envelope = r.envelope,
                                 !.error_type = r.error_type, !.data = r.data,
                                 !.fetched = outcome,
                                 !.stages = Append(@, "fetch")]
    /\ UNCHANGED <<ex, burned, now, limiterVars, tokenVars, threads>>

\* POST /api/auth/token: get_auth_token.  The body is examined before the
\* rate limit; an exception is answered by the handler's except clause.
TokenPost(c, body) ==
    /\ req.pc = "idle"
    /\ LET r == [NoReq EXCEPT
                   !.pc = "done", !.endpoint = "token", !.client = c,
                   !.body = body, !.at = now, !.envelope = "error",
                   !.overQuota = Recent(WindowOf(request_counts, c), now)
                                     >= MAX_REQUESTS_PER_MINUTE]
           lim == rate_limit_check(request_counts, c, now)
       IN  IF body.kind = "no_api_key"
           THEN /\ req' = [r EXCEPT !.status = 400,
                                    !.error_type = "AuthenticationError"]
                /\ UNCHANGED <<ex, burned, request_counts, token_cache>>
           ELSE IF body.kind = "array"
           THEN /\ req' = [r EXCEPT !.status = 500,
                                    !.error_type = "ServerException"]
                /\ UNCHANGED <<ex, burned, request_counts, token_cache>>
           ELSE /\ request_counts' = lim.counts
                /\ IF ~lim.ok
                   THEN /\ req' = [r EXCEPT !.status = 429,
                                            !.error_type = "RateLimitError",
                                            !.stages = <<"rate_limit">>]
                        /\ UNCHANGED token_cache
                   ELSE IF body.api_key \notin API_KEYS
                   THEN /\ req' = [r EXCEPT !.status = 401,
                                            !.error_type = "AuthenticationError",
                                            !.stages = <<"rate_limit">>]
                        /\ UNCHANGED token_cache
                   ELSE LET g == generate_token(token_cache, body.api_key, now)
                        IN  /\ token_cache' = g.memo
                            /\ req' = [r EXCEPT !.status = 200,
                                                !.envelope = "success",
                                                !.token = Some(g.token),
                                                !.stages = <<"rate_limit">>]
    /\ UNCHANGED <<ex, burned, now, historyVars, tk, cacheVars, threads>>

\* health_check placed behind the rate limit
health_check_rate_limited(counts, cache, ip, t) ==
    LET lim == rate_limit_check(counts, ip, t)
    IN  [status |-> IF lim.ok THEN 200 ELSE 429,
         envelope |-> IF lim.ok THEN "success" ELSE "error",
         counts |-> lim.counts, cache |-> cache]

\* health_check for a request of client ip at time t: the route has no
\* require_auth decorator and reads neither request_counts nor
\* content_cache
health_check(counts, cache, ip, t) ==
    [status |-> 200, envelope |-> "success", counts |-> counts, cache |-> cache]

\* GET /api/health of client c with Authorization header h
Health(c, h) ==
    /\ req.pc = "idle"
    /\ LET r == health_check(request_counts, content_cache, c, now)
       IN  /\ request_counts' = r.counts
           /\ content_cache' = r.cache
           /\ req' = [NoReq EXCEPT
                        !.pc = "done", !.endpoint = "health", !.client = c,
                        !.header = h, !.at = now, !.status = r.status,
                        !.envelope = r.envelope,
                        !.overQuota = Recent(WindowOf(request_counts, c), now)
                                          >= MAX_REQUESTS_PER_MINUTE]
    /\ UNCHANGED <<ex, burned, now, historyVars, tokenVars, stored, threads>>

\* the response has been sent
Respond ==
    /\ req.pc = "done"
    /\ req' = NoReq
    /\ UNCHANGED <<ex, burned, now, limiterVars, tokenVars, cacheVars, threads>>

Next ==
    \/ Tick
    \/ \E r \in Requests(token_cache) : SabdaRequest(Caller, r.header, r.query)
    \/ \E o \in FetchOutcomes, p \in Pages : ScrapeFetch(o, p)
    \/ \E b \in CallerBodies : TokenPost(Caller, b)
    \/ \E h \in {NoHeader} \cup GoodHeaders(token_cache) : Health(Caller, h)
    \/ Respond

Spec == Init /\ [][Next]_vars

\* ------------------------------------------------- the extraction engine
\* scrape_sabda_content parses the bytes of a response into a document
Parse ==
    /\ ex.pc = "idle"
    /\ \E doc \in Docs : ex' = [NoExtraction EXCEPT !.pc = "parsed", !.doc = doc]
    /\ UNCHANGED <<now, limiterVars, tokenVars, cacheVars, req, threads, burned>>

\* and hands the document to extract_content; stages keeps the passes that
\* ran in the call, structural and potential how many paragraphs the
\* structural pass and Method 1 gave, paragraphs the paragraphs before
\* post-cleaning
Extract ==
    /\ ex.pc = "parsed"
    /\ LET seg == segment(ex.doc)
       IN  ex' = [ex EXCEPT !.pc = "extracted",
                            !.content = Some(extract_content(ex.doc)),
                            !.stages = seg.stages,
                            !.structural = Len(seg.structural),
                            !.potential = Len(seg.potential),
                            !.paragraphs = seg.paragraphs]
    /\ UNCHANGED <<now, limiterVars, tokenVars, cacheVars, req, threads, burned>>

NextExtract == Parse \/ Extract

SpecExtract == Init /\ [][NextExtract]_vars

\* ------------------------------------------- rate_limit_check in threads
\* app.run(threaded=True) serves every request in a thread of its own, and
\* rate_limit_check takes no lock: between two statements of one thread
\* another thread may run.  The threads serve requests of one client.

\* now = datetime.now(); if client_ip not in request_counts
RlBegin(th) ==
    /\ threads[th].pc = "idle"
    /\ threads' = [threads EXCEPT
                     ![th] = [IdleThread EXCEPT
                                !.t = now,
                                !.pc = IF Caller \in DOMAIN request_counts
                                       THEN "rl_read" ELSE "rl_init"]]
    /\ UNCHANGED <<ex, burned, now, limiterVars, tokenVars, cacheVars, req>>

\* request_counts[client_ip] = []
RlInit(th) ==
    /\ threads[th].pc = "rl_init"
    /\ request_counts' = SetWindow(request_counts, Caller, <<>>)
    /\ threads' = [threads EXCEPT ![th].pc = "rl_read"]
    /\ UNCHANGED <<ex, burned, now, historyVars, tokenVars, cacheVars, req>>

\* the list comprehension reads request_counts[client_ip]
RlRead(th) ==
    /\ threads[th].pc = "rl_read"
    /\ threads' = [threads EXCEPT ![th].old = WindowOf(request_counts, Caller),
                                  ![th].pc = "rl_write"]
    /\ UNCHANGED <<ex, burned, now, limiterVars, tokenVars, cacheVars, req>>

\* request_counts[client_ip] = [the instants read that are less than 60 s old]
RlWrite(th) ==
    /\ threads[th].pc = "rl_write"
    /\ request_counts' = SetWindow(request_counts, Caller,
                                   Prune(threads[th].old, threads[th].t))
    /\ threads' = [threads EXCEPT ![th].pc = "rl_check", ![th].old = <<>>]
    /\ UNCHANGED <<ex, burned, now, historyVars, tokenVars, cacheVars, req>>

\* if len(request_counts[client_ip]) >= MAX_REQUESTS_PER_MINUTE: return False
RlCheck(th) ==
    /\ threads[th].pc = "rl_check"
    /\ threads' = [threads EXCEPT
                     ![th] = IF Len(WindowOf(request_counts, Caller))
                                   >= MAX_REQUESTS_PER_MINUTE
                             THEN [IdleThread EXCEPT !.result = "False"]
                             ELSE [@ EXCEPT !.pc = "rl_append"]]
    /\ UNCHANGED <<ex, burned, now, limiterVars, tokenVars, cacheVars, req>>

\* request_counts[client_ip].append(now); return True.  The call is admitted.
RlAppend(th) ==
    /\ threads[th].pc = "rl_append"
    /\ request_counts' = SetWindow(request_counts, Caller,
                             Append(WindowOf(request_counts, Caller), threads[th].t))
    /\ admitted' = [admitted EXCEPT ![Caller] = LastAdmitted(Append(@, threads[th].t))]
    /\ threads' = [threads EXCEPT ![th] = [IdleThread EXCEPT !.result = "True"]]
    /\ UNCHANGED <<ex, burned, now, rl, rejected, tokenVars, cacheVars, req>>

NextRateThreads ==
    \/ Tick
    \/ \E th \in Threads :
          \/ RlBegin(th)
          \/ RlInit(th)
          \/ RlRead(th)
          \/ RlWrite(th)
          \/ RlCheck(th)
          \/ RlAppend(th)

SpecRateThreads == Init /\ [][NextRateThreads]_vars

\* --------------------------------------- scrape_sabda_content in threads
\* The threads of app.run(threaded=True) run scrape_sabda_content for
\* admitted, authenticated, valid requests; get_cached_content takes no
\* lock, so between its statements another thread may run.  A thread's
\* result says how its call ended.

\* cache_key = f"sabda_{year}_{formatted_date}"; get_cached_content is called
ScBegin(th, q) ==
    /\ threads[th].pc = "idle"
    /\ threads' = [threads EXCEPT
                     ![th] = [IdleThread EXCEPT
                                !.pc = "cache_in",
                                !.key = CacheKey(q.year[1], q.date)]]
    /\ UNCHANGED <<ex, burned, now, limiterVars, tokenVars, cacheVars, req>>

\* if cache_key in content_cache; without the key get_cached_content
\* returns None and the fetch begins
CacheIn(th) ==
    /\ threads[th].pc = "cache_in"
    /\ threads' = [threads EXCEPT
                     ![th].pc = IF threads[th].key \in DOMAIN content_cache
                                THEN "cache_read" ELSE "fetch"]
    /\ UNCHANGED <<ex, burned, now, limiterVars, tokenVars, cacheVars, req>>

\* content, timestamp = content_cache[cache_key], and the test of its age: a
\* fresh entry is returned; KeyError when the key has been deleted meanwhile,
\* which the except clause of scrape_sabda_content answers
CacheRead(th) ==
    /\ threads[th].pc = "cache_read"
    /\ threads' = [threads EXCEPT
          ![th] = IF threads[th].key \notin DOMAIN content_cache
                  THEN [IdleThread EXCEPT !.result = "lookup_failed"]
                  ELSE IF now - content_cache[threads[th].key].timestamp < CACHE_TTL
                  THEN [IdleThread EXCEPT !.result = "hit"]
                  ELSE [@ EXCEPT !.pc = "cache_del"]]
    /\ UNCHANGED <<ex, burned, now, limiterVars, tokenVars, cacheVars, req>>

\* del content_cache[cache_key]: KeyError when the key has been deleted
\* meanwhile; otherwise get_cached_content returns None and the fetch begins
CacheDel(th) ==
    /\ threads[th].pc = "cache_del"
    /\ IF threads[th].key \notin DOMAIN content_cache
       THEN /\ threads' = [threads EXCEPT
                             ![th] = [IdleThread EXCEPT !.result = "lookup_failed"]]
            /\ UNCHANGED content_cache
       ELSE /\ threads' = [threads EXCEPT ![th].pc = "fetch"]
            /\ content_cache' = [k \in (DOMAIN content_cache) \ {threads[th].key} |->
                                    content_cache[k]]
    /\ UNCHANGED <<ex, burned, now, limiterVars, tokenVars, stored, req>>

\* the fetch of the thread ends, and scrape_sabda_content returns
ScFetch(th, outcome, page) ==
    /\ threads[th].pc = "fetch"
    /\ LET r == scrape_fetch(content_cache, threads[th].key, outcome, page, now)
       IN  /\ content_cache' = r.cache
           /\ threads' = [threads EXCEPT
                 ![th] = [IdleThread EXCEPT
                            !.result = IF r.envelope = "success"
                                       THEN "fetched" ELSE "fetch_failed"]]
    /\ UNCHANGED <<ex, burned, now, limiterVars, tokenVars, stored, req>>

NextFetchThreads ==
    \/ Tick
    \/ \E th \in Threads :
          \/ \E q \in ValidQueries : ScBegin(th, q)
          \/ CacheIn(th)
          \/ CacheRead(th)
          \/ CacheDel(th)
          \/ \E o \in FetchOutcomes, p \in Pages : ScFetch(th, o, p)

SpecFetchThreads == Init /\ [][NextFetchThreads]_vars

\* ================================================================= claims

\* the entries of history h that fall in the 60-second window starting at s
InWindow(h, s) == {j \in 1..Len(h) : s <= h[j] /\ h[j] < s + WindowSecs}

\* C2: sequential calls of one client: once MAX_REQUESTS_PER_MINUTE calls
\* were admitted and are all less than 60 s old, a further call is rejected;
\* so no 60-second window holds more than MAX_REQUESTS_PER_MINUTE admitted
\* calls of one client.
C2_QuotaPerWindow ==
    /\ \A c \in Clients : \A i \in 1..Len(admitted[c]) :
          Cardinality(InWindow(admitted[c], admitted[c][i])) <= MAX_REQUESTS_PER_MINUTE
    /\ (rl.client # "none" /\ rl.ok) =>
          Recent(admitted[rl.client], rl.at) <= MAX_REQUESTS_PER_MINUTE

\* a call was rejected while the quota of admitted calls was less than 60 s
\* old, and the client had been admitted again after an earlier window
C2_Witness ==
    /\ rl.client # "none" /\ ~rl.ok
    /\ Recent(admitted[rl.client], rl.at) = MAX_REQUESTS_PER_MINUTE
    /\ Len(admitted[rl.client]) = MAX_REQUESTS_PER_MINUTE + 1

\* C5: a client whose latest call was rejected is admitted by its first call
\* made more than 60 s after its oldest recorded admission; the rejected
\* calls in between did not move that instant.
C5_Recovery ==
    (/\ rl.client # "none"
     /\ rl.wasRejected
     /\ rl.pre # <<>>
     /\ rl.at - rl.pre[1] > WindowSecs) => rl.ok

\* a rejected client called again more than 60 s after its oldest recorded
\* admission, after at least one rejected call, and was admitted
C5_Witness ==
    /\ rl.client # "none" /\ rl.wasRejected /\ rl.pre # <<>>
    /\ rl.at - rl.pre[1] > WindowSecs
    /\ rl.ok

\* C3: every successful issue call made at time t, a repeated call for an
\* already served key included, returns a credential expiring at
\* t + JWT_EXPIRATION_DELTA, which verify accepts at every time in
\* [t, t + JWT_EXPIRATION_DELTA).
C3_IssuedTokenLivesFullLifetime ==
    tk.op = "issue" =>
        /\ tk.token.payload.exp = tk.at + JWT_EXPIRATION_DELTA
        /\ now < tk.at + JWT_EXPIRATION_DELTA => verify_token(tk.token, now) # None

\* C4: verify returns a payload exactly for a credential the server issued,
\* unaltered, checked before its expiry; a credential whose signature does
\* not match, or one checked at or after its expiry, yields None.
C4_VerifyRejectsForgedAndExpired ==
    tk.op = "verify" =>
        /\ tk.result # None <=>
              (tk.token \in Issued(token_cache) /\ tk.at < tk.token.payload.exp)
        /\ tk.result # None => tk.result = Some(tk.token.payload)

\* an issued, unaltered credential was verified at its expiry instant or
\* later and refused
C4_Witness ==
    /\ tk.op = "verify"
    /\ tk.token \in Issued(token_cache)
    /\ tk.at >= tk.token.payload.exp
    /\ tk.result = None

\* how often instant t occurs in window w
Occurrences(w, t) == Cardinality({i \in 1..Len(w) : w[i] = t})

\* C17: every client's window holds at most MAX_REQUESTS_PER_MINUTE
\* instants, all of them instants of admitted calls; after a call the
\* caller's window holds only instants less than 60 s before the call; a
\* rejected call leaves its instant unrecorded.
C17_WindowContents ==
    /\ \A c \in DOMAIN request_counts :
          /\ Len(request_counts[c]) <= MAX_REQUESTS_PER_MINUTE
          /\ \A i \in 1..Len(request_counts[c]) :
                \E j \in 1..Len(admitted[c]) : admitted[c][j] = request_counts[c][i]
    /\ rl.client # "none" =>
          LET w == request_counts[rl.client]
          IN  /\ \A i \in 1..Len(w) : rl.at - w[i] < WindowSecs
              /\ ~rl.ok => Occurrences(w, rl.at) = Occurrences(rl.pre, rl.at)
              /\ rl.ok => Occurrences(w, rl.at) = Occurrences(rl.pre, rl.at) + 1

\* a call was rejected at an instant later than every recorded one: the
\* window is full and does not hold the instant of the call
C17_Witness ==
    /\ rl.client # "none" /\ ~rl.ok
    /\ Len(request_counts[rl.client]) = MAX_REQUESTS_PER_MINUTE
    /\ Occurrences(request_counts[rl.client], rl.at) = 0

\* ------------------------------------------------ GET /api/sabda requests
\* the stages of the pipeline, in the order the claims give them
PipelineOrder == <<"rate_limit", "verify_token", "handler", "cache_lookup", "fetch">>

\* the request in progress or just answered is a GET /api/sabda
OnSabda == req.endpoint = "sabda"

\* the stage was run for the request
Ran(stage) == \E i \in 1..Len(req.stages) : req.stages[i] = stage

\* the cache key of the request's query
ReqKey == CacheKey(req.query.year[1], req.query.date)

\* the request carries no Authorization header, or a token whose signature
\* is not the server's for its payload, or one expired when the request
\* was made
BadCredential(r) ==
    \/ r.header.form = "missing"
    \/ r.header.token.sig # HS256(SECRET_KEY, r.header.token.payload)
    \/ r.header.token.payload.exp <= r.at

\* the last successful fetch for the request's (year, date) was less than
\* CACHE_TTL before the request
KnownFresh(r) == r.known # None /\ r.at - r.known[1].at < CACHE_TTL

\* C6: a looked-up entry is served exactly while its age is below CACHE_TTL;
\* at age >= CACHE_TTL the lookup misses and the entry is gone; a hit leaves
\* the entry's timestamp at the instant it was stored.
C6_ServedOnlyBelowTTL ==
    (OnSabda /\ Ran("cache_lookup")) =>
        /\ req.cached <=> KnownFresh(req)
        /\ (req.cached /\ req.pc = "done") =>
              /\ req.data = Some(req.known[1].content)
              /\ ReqKey \in DOMAIN content_cache
              /\ content_cache[ReqKey].timestamp = req.known[1].at
        /\ (~req.cached /\ req.pc = "fetch") => ReqKey \notin DOMAIN content_cache

\* an entry was looked up at age exactly CACHE_TTL: a miss, and the entry
\* was removed
C6_Witness ==
    /\ OnSabda /\ Ran("cache_lookup") /\ req.pc = "fetch"
    /\ req.known # None
    /\ req.at - req.known[1].at = CACHE_TTL
    /\ ~req.cached
    /\ ReqKey \notin DOMAIN content_cache

\* C7: a failed fetch or extraction is answered with 500 and leaves no cache
\* entry for the key; a successful one is answered with 200 and cached; every
\* cache entry is the content of a successful fetch, stored when it was
\* fetched; a cache hit is answered with 200.
C7_OnlySuccessIsCached ==
    /\ (OnSabda /\ req.pc = "done" /\ req.fetched \notin {"", "ok"}) =>
          /\ req.status = 500
          /\ req.data = None
          /\ ReqKey \notin DOMAIN content_cache
    /\ (OnSabda /\ req.pc = "done" /\ req.fetched = "ok") =>
          /\ req.status = 200
          /\ ReqKey \in DOMAIN content_cache
          /\ Some(content_cache[ReqKey].content) = req.data
    /\ \A k \in DOMAIN content_cache :
          \E g \in DOMAIN stored :
             /\ k = CacheKey(g[1][1], g[2])
             /\ content_cache[k] = [content |-> stored[g].content,
                                    timestamp |-> stored[g].at]
    /\ (OnSabda /\ req.cached) => (req.status = 200 /\ req.fetched = "")

\* the key had been cached, its entry expired, and the fetch after the miss
\* failed: 500, and no entry for the key
C7_Witness ==
    /\ OnSabda /\ req.pc = "done"
    /\ req.fetched \notin {"", "ok"}
    /\ req.known # None
    /\ req.status = 500
    /\ ReqKey \notin DOMAIN content_cache

\* C8: the stages run for a request are an initial part of rate limit, token
\* verification, handler, cache lookup, fetch, in this order; a request of a
\* client over its quota is answered with 429 after the rate-limit check
\* alone, whatever credential it carries.
C8_PipelineOrder ==
    OnSabda =>
        /\ \E n \in 1..Len(PipelineOrder) : req.stages = SubSeq(PipelineOrder, 1, n)
        /\ req.overQuota =>
              /\ req.pc = "done"
              /\ req.status = 429
              /\ req.stages = <<"rate_limit">>

\* a request carrying an issued, unexpired token was made over quota and
\* answered with 429
C8_Witness ==
    /\ OnSabda /\ req.overQuota
    /\ ~BadCredential(req)
    /\ req.status = 429
    /\ req.stages = <<"rate_limit">>

\* C9 as stated: every request with a missing header or a token with an
\* invalid signature or expired is answered with 401 and never reaches the
\* handler.
C9_BadCredentialAlways401 ==
    (OnSabda /\ BadCredential(req)) =>
        /\ req.status = 401
        /\ req.pc = "done"
        /\ ~Ran("handler") /\ ~Ran("cache_lookup") /\ ~Ran("fetch")

\* C9: a request admitted by the rate limiter with a missing header or a
\* token with an invalid signature or expired is answered with 401 and never
\* reaches the handler: no cache lookup, no change of the cache, no fetch.
C9_AdmittedBadCredential401 ==
    [][(req.pc = "idle" /\ req'.endpoint = "sabda"
          /\ BadCredential(req') /\ ~req'.overQuota) =>
            /\ req'.status = 401
            /\ req'.error_type = "AuthenticationError"
            /\ req'.pc = "done"
            /\ \A i \in 1..Len(req'.stages) :
                  req'.stages[i] \notin {"handler", "cache_lookup", "fetch"}
            /\ content_cache' = content_cache]_vars

\* an admitted request carried a token the server issued, expired by then,
\* for a key whose cache entry is fresh, and was answered with 401
C9_Witness ==
    /\ OnSabda /\ ~req.overQuota
    /\ req.header.form = "bearer"
    /\ req.header.token \in Issued(token_cache)
    /\ req.header.token.payload.exp <= req.at
    /\ req.status = 401

\* C1 as stated: every request for a valid (year, date) made less than
\* CACHE_TTL after the last successful fetch for it returns the fetched
\* content as a cache hit, with no fetch.
C1_EveryLaterRequestHits ==
    (OnSabda /\ validate(req.query) = Valid /\ KnownFresh(req)) =>
        /\ req.pc = "done"
        /\ req.cached
        /\ req.data = Some(req.known[1].content)
        /\ req.fetched = ""

\* C1: every request for a valid (year, date) that is admitted by the rate
\* limiter, carries a valid token and is made less than CACHE_TTL after the
\* last successful fetch for it returns the fetched content as a cache hit,
\* with status 200 and no fetch.
C1_AdmittedLaterRequestHits ==
    (/\ OnSabda /\ validate(req.query) = Valid /\ KnownFresh(req)
     /\ ~req.overQuota /\ ~BadCredential(req)) =>
        /\ req.pc = "done"
        /\ req.status = 200
        /\ req.cached
        /\ req.data = Some(req.known[1].content)
        /\ req.fetched = "" /\ ~Ran("fetch")

\* a request was served from the cache
C1_Witness ==
    /\ OnSabda /\ validate(req.query) = Valid /\ KnownFresh(req)
    /\ ~req.overQuota /\ ~BadCredential(req)
    /\ req.cached /\ req.status = 200

\* the date is four characters, all digits
ExactlyFourDigits(d) == Len(d) = 4 /\ \A i \in 1..4 : d[i] \in Digits

\* year missing or outside 2000..currentYear+1, or date missing, not exactly
\* four digits, or with month outside 01-12 or day outside 01-31
BadQuery(q) ==
    \/ q.year = None
    \/ q.year[1] < MinYear
    \/ q.year[1] > CurrentYear + 1
    \/ q.date = <<>>
    \/ ~ExactlyFourDigits(q.date)
    \/ 10 * DigitVal(q.date[1]) + DigitVal(q.date[2]) \notin 1..12
    \/ 10 * DigitVal(q.date[3]) + DigitVal(q.date[4]) \notin 1..31

\* C10: an admitted and authenticated request with such a query is answered
\* with 400 and error type ValidationError, with no cache lookup and no
\* fetch.
C10_BadQueryRejected ==
    (OnSabda /\ ~req.overQuota /\ ~BadCredential(req) /\ BadQuery(req.query)) =>
        /\ req.pc = "done"
        /\ req.status = 400
        /\ req.error_type = "ValidationError"
        /\ ~Ran("cache_lookup") /\ ~Ran("fetch")

\* ------------------------------------------------ POST /api/auth/token
\* the request in progress or just answered is a POST /api/auth/token
OnToken == req.endpoint = "token"

\* C11: a POST /api/auth/token of a client whose quota is exhausted is
\* answered with 429, whatever its body.
C11_TokenOverQuota429 ==
    (OnToken /\ req.overQuota) => req.status = 429

\* C12: a POST /api/auth/token of a client within its quota is answered with
\* 400 when the body has no api_key, with 401 when the api_key is not an
\* accepted key, and with 200 and a token exactly when it is one; no token
\* is issued for another key.
C12_TokenStatusByBody ==
    (OnToken /\ ~req.overQuota) =>
        /\ req.body.kind # "api_key" => req.status = 400
        /\ (req.body.kind = "api_key" /\ req.body.api_key \notin API_KEYS) =>
              req.status = 401
        /\ (req.status = 200 /\ req.token # None) <=>
              (req.body.kind = "api_key" /\ req.body.api_key \in API_KEYS)
        /\ req.token # None =>
              (req.body.kind = "api_key" /\ req.body.api_key \in API_KEYS)

\* C15: every answered GET /api/sabda carries the envelope status "success"
\* or "error" and one of the API's status codes; a fetch that timed out,
\* failed, returned too little or could not be extracted is answered with
\* 500 and "error" and the error type of its except clause; the status is 200
\* exactly when the envelope says "success".
C15_EnvelopeMatchesStatus ==
    (OnSabda /\ req.pc = "done") =>
        /\ req.envelope \in {"success", "error"}
        /\ req.status \in {200, 400, 401, 429, 500}
        /\ req.status = 200 <=> req.envelope = "success"
        /\ req.fetched \in FetchOutcomes \ {"ok"} =>
              /\ req.status = 500
              /\ req.envelope = "error"
              /\ req.error_type \in
                    {"TimeoutException", "RequestException", "GeneralException"}

\* the extraction of a fetched page raised, and the request was answered
\* with 500 and an error envelope
C15_Witness ==
    /\ OnSabda /\ req.pc = "done"
    /\ req.fetched = "ExtractError"
    /\ req.status = 500 /\ req.envelope = "error"
    /\ req.error_type = "GeneralException"

\* C16: GET /api/health is answered with 200 whatever the caller's window,
\* header and the cache hold, and leaves request_counts and content_cache as
\* they were.
C16_HealthAlways200 ==
    [][(req.pc = "idle" /\ req'.endpoint = "health") =>
          /\ req'.status = 200
          /\ req'.envelope = "success"
          /\ request_counts' = request_counts
          /\ content_cache' = content_cache]_vars

\* a client over its quota, sending no Authorization header, asked for
\* /api/health while the cache held an entry, and was answered with 200
C16_Witness ==
    /\ req.endpoint = "health" /\ req.pc = "done"
    /\ req.overQuota
    /\ req.header = NoHeader
    /\ content_cache # << >>
    /\ req.status = 200

\* C20: an admitted GET /api/sabda whose Authorization header is present
\* but does not start with "Bearer " is answered with 401 and does not reach
\* the handler, also when the header's value is an issued, unexpired token.
C20_NonBearerHeaderRejected ==
    (OnSabda /\ ~req.overQuota /\ req.header.form = "raw") =>
        /\ req.status = 401
        /\ req.pc = "done"
        /\ ~Ran("handler") /\ ~Ran("cache_lookup") /\ ~Ran("fetch")

\* ------------------------------------------------------------- threads
\* C14: whatever the interleaving of the threads' calls for one client, no
\* 60-second window holds more than MAX_REQUESTS_PER_MINUTE admitted calls
\* of the client, and every admitted instant less than 60 s old is in the
\* client's window.
C14_ThreadsKeepQuota ==
    /\ \A i \in 1..Len(admitted[Caller]) :
          Cardinality(InWindow(admitted[Caller], admitted[Caller][i]))
              <= MAX_REQUESTS_PER_MINUTE
    /\ \A i \in 1..Len(admitted[Caller]) :
          now - admitted[Caller][i] < WindowSecs =>
              Occurrences(WindowOf(request_counts, Caller), admitted[Caller][i])
                  >= Occurrences(admitted[Caller], admitted[Caller][i])

\* C13: at any time at most one thread is fetching for a given cache key.
C13_OneFetchPerKey ==
    \A th1, th2 \in Threads :
        (/\ threads[th1].pc = "fetch"
         /\ threads[th2].pc = "fetch"
         /\ threads[th1].key = threads[th2].key) => th1 = th2

\* the admitted GET /api/sabda requests of the request's client that were
\* answered 401 or 400 before the request and less than 60 s before it
BurnedBefore ==
    LET h == burned[req.client]
        prior == IF req.pc = "done" /\ req.status \in {400, 401} /\ h # <<>>
                 THEN SubSeq(h, 1, Len(h) - 1) ELSE h
    IN  Recent(prior, req.at)

\* C24: a GET /api/sabda the rate limiter admits is recorded in the client's
\* window before its credential is examined, also when it is then answered
\* 401 or 400; so after MAX_REQUESTS_PER_MINUTE admitted requests answered
\* 401 or 400 within 60 s, a request of the client with a valid token is
\* answered 429.
C24_RejectedRequestsConsumeQuota ==
    (OnSabda /\ req.pc \in {"fetch", "done"}) =>
        /\ ~req.overQuota =>
              /\ req.stages[1] = "rate_limit"
              /\ Occurrences(WindowOf(request_counts, req.client), req.at) >= 1
              /\ Recent(WindowOf(request_counts, req.client), req.at)
                     >= BurnedBefore + 1
        /\ (~BadCredential(req) /\ BurnedBefore >= MAX_REQUESTS_PER_MINUTE) =>
              req.pc = "done" /\ req.status = 429

\* a request with a valid token answered 429 after admitted requests of the
\* client that were answered 401 or 400 spent its quota
C24_Witness ==
    /\ OnSabda
    /\ req.pc = "done"
    /\ ~BadCredential(req)
    /\ BurnedBefore >= MAX_REQUESTS_PER_MINUTE
    /\ req.status = 429

\* C23: whatever the interleaving of the threads' calls, the cache lookup of
\* a call never fails: a call ends with cached content, with fetched
\* content, or with the error of its own fetch or extraction.
C23_LookupNeverFails ==
    \A th \in Threads :
        /\ threads[th].result # "lookup_failed"
        /\ threads[th].result \in {"", "hit", "fetched", "fetch_failed"}

\* ------------------------------------------------- the extraction engine
\* the number of whitespace-separated tokens of a text of several lines
RECURSIVE Tokens(_)
Tokens(text) == IF text = <<>> THEN 0 ELSE Len(Head(text)) + Tokens(Tail(text))

\* the passes that ran in the extraction
StagesRun == {ex.stages[i] : i \in 1..Len(ex.stages)}

\* a list: a sequence, possibly the empty one
IsList(l) == DOMAIN l = 1..Len(l)

\* C18: every record extract_content returns, whichever passes ran, has a
\* list of paragraphs, the empty list when the passes gave no paragraph, a
\* word_count that is the number of whitespace-separated tokens of
\* full_text, and a paragraph_count that is the length of the list
C18_RecordCounts ==
    ex.pc = "extracted" =>
        LET content == ex.content[1]
        IN  /\ IsList(content.devotional_content)
            /\ segment(ex.doc).paragraphs = <<>> => content.devotional_content = <<>>
            /\ content.word_count = Tokens(content.full_text)
            /\ content.paragraph_count = Len(content.devotional_content)

\* a record of the equal split whose text has more words than its paragraphs
C18_Witness ==
    /\ ex.pc = "extracted"
    /\ "equal_split" \in StagesRun
    /\ ex.content[1].paragraph_count = 3
    /\ ex.content[1].word_count > Len(Join(ex.content[1].devotional_content))

\* C19: when the structural pass gives two or more paragraphs no fallback
\* runs and the returned paragraphs are the structural ones, post-cleaned;
\* the text-fallback pass runs only when the structural pass gave at most
\* one paragraph, and the split of the body only when Method 1 of the
\* text-fallback pass gave at most one
C19_StageOrder ==
    ex.pc = "extracted" =>
        LET structural == structural_pass(ex.doc)
            ran == StagesRun
        IN  /\ Len(structural) >= 2 =>
                  /\ ex.stages = <<"structural">>
                  /\ ex.content[1].devotional_content =
                         cleaned_paragraphs(ex.doc, structural)
            /\ "text_fallback" \in ran => ex.structural <= 1 /\ Len(structural) <= 1
            /\ (ran \cap {"equal_split", "whole_body"} # {}) =>
                  "text_fallback" \in ran /\ ex.potential <= 1

\* two structural paragraphs returned, one of them with its author tag
\* taken off
C19_Witness ==
    /\ ex.pc = "extracted"
    /\ Len(structural_pass(ex.doc)) >= 2
    /\ Len(ex.content[1].devotional_content) >= 2
    /\ ex.content[1].devotional_content # structural_pass(ex.doc)

\* the difference of two numbers
Diff(a, b) == IF a >= b THEN a - b ELSE b - a

\* C21: when the text-fallback pass ran, Method 1 gave at most one paragraph
\* and the body has more than 150 words, the paragraphs before post-cleaning
\* are three slices of the body's words, in order, that together are the
\* whole body, of floor(n/3), floor(n/3) and n - 2*floor(n/3) words, so of
\* lengths that differ by at most 2
C21_EqualSplitSlices ==
    (/\ ex.pc = "extracted"
     /\ "text_fallback" \in StagesRun
     /\ ex.potential <= 1
     /\ Len(content_text(ex.doc)) > 150) =>
        LET body == content_text(ex.doc)
            n == Len(body)
            parts == ex.paragraphs
        IN  /\ Len(parts) = 3
            /\ parts[1] \o parts[2] \o parts[3] = body
            /\ Len(parts[1]) = n \div 3
            /\ Len(parts[2]) = n \div 3
            /\ Len(parts[3]) = n - 2 * (n \div 3)
            /\ \A i, j \in 1..3 : Diff(Len(parts[i]), Len(parts[j])) <= 2

\* a body split whose number of words is no multiple of three
C21_Witness ==
    /\ ex.pc = "extracted"
    /\ "equal_split" \in StagesRun
    /\ Len(content_text(ex.doc)) > 150
    /\ Len(content_text(ex.doc)) % 3 # 0
    /\ Len(ex.paragraphs) = 3

\* the position in lines of the first line that holds the scripture
\* reference, 0 when no line does
BodyStart(doc) ==
    LET ls == Lines(doc)
        refs == {n \in 1..Len(ls) : doc.elements[ls[n]].kind = "ref"}
    IN  IF refs = {} THEN 0 ELSE CHOOSE n \in refs : \A m \in refs : n <= m

\* the position of the first line after BodyStart that holds a keyword of the
\* text-fallback pass's footer list, one past the last line when none does
BodyEnd(doc) ==
    LET ls == Lines(doc)
        ends == {n \in 1..Len(ls) : n > BodyStart(doc) /\ doc.elements[ls[n]].kind = "footer"}
    IN  IF ends = {} THEN Len(ls) + 1 ELSE CHOOSE n \in ends : \A m \in ends : n <= m

\* the elements whose lines lie in the body window
BodyWindow(doc) ==
    IF BodyStart(doc) = 0 THEN {}
    ELSE {Lines(doc)[n] : n \in (BodyStart(doc) + 1)..(BodyEnd(doc) - 1)}

\* the words of a text stand in the order of the document
InDocumentOrder(text) ==
    \A a, b \in 1..Len(text) :
        a < b => \/ text[a][1] < text[b][1]
                 \/ text[a][1] = text[b][1] /\ text[a][2] < text[b][2]

\* every word of a text is of a line in the body window
FromWindow(doc, text) == \A a \in 1..Len(text) : text[a][1] \in BodyWindow(doc)

\* C22: when the text-fallback pass ran, the body and every returned
\* paragraph are made only of lines after the first line that holds the
\* scripture reference and before the first footer line after it, in the
\* order of the document; no line before the reference line, nor the footer
\* line or a line after it, gives a word to a returned paragraph
C22_BodyWindow ==
    (ex.pc = "extracted" /\ "text_fallback" \in StagesRun) =>
        /\ FromWindow(ex.doc, Join(ex.paragraphs))
        /\ FromWindow(ex.doc, Join(ex.content[1].devotional_content))
        /\ \A n \in 1..Len(ex.paragraphs) : InDocumentOrder(ex.paragraphs[n])
        /\ InDocumentOrder(Join(ex.content[1].devotional_content))

\* a paragraph returned by the text-fallback pass out of a document with a
\* line outside the window that is long enough to be kept
C22_Witness ==
    /\ ex.pc = "extracted"
    /\ "text_fallback" \in StagesRun
    /\ ex.content[1].devotional_content # <<>>
    /\ \E n \in 1..Len(Lines(ex.doc)) :
          /\ Lines(ex.doc)[n] \notin BodyWindow(ex.doc)
          /\ n # BodyStart(ex.doc)
          /\ ex.doc.elements[Lines(ex.doc)[n]].kind \in {"body", "ketika"}
          /\ Chars(ex.doc.elements[Lines(ex.doc)[n]].w) > 15

\* no line of the document holds a scripture reference
NoReference(doc) ==
    \A i \in 1..Len(doc.elements) :
        doc.elements[i].w > 0 => doc.elements[i].kind # "ref"

\* C25: for a document without a scripture reference whose structural pass
\* gives at most one paragraph, the text-fallback pass runs and finds no
\* body, so the record that is returned has the empty paragraph list and a
\* paragraph_count of 0, also when the structural pass gave one paragraph
C25_NoReferenceNoParagraphs ==
    (/\ ex.pc = "extracted"
     /\ NoReference(ex.doc)
     /\ Len(structural_pass(ex.doc)) <= 1) =>
        /\ ex.content # None
        /\ ex.content[1].scripture_reference = None
        /\ "text_fallback" \in StagesRun
        /\ ex.paragraphs = <<>>
        /\ ex.content[1].devotional_content = <<>>
        /\ ex.content[1].paragraph_count = 0

\* a record without paragraphs for a document without a reference whose
\* one structural paragraph would have passed post-cleaning
C25_Witness ==
    /\ ex.pc = "extracted"
    /\ NoReference(ex.doc)
    /\ ex.structural = 1
    /\ cleaned_paragraphs(ex.doc, structural_pass(ex.doc)) # <<>>
    /\ ex.content[1].paragraph_count = 0

====
